---- MODULE Spec2Model ----
(***************************************************************************)
(* Verification model of three parts of pace/bricks:                       *)
(*   - the OpenAPI source generator (Generator.BuildSource / BuildSchema), *)
(*   - the OAuth2 scopes middleware (ScopesMiddleware.Handler),            *)
(*   - the PostgreSQL pool instrumentation (metricsAdapter).               *)
(* Each part has its own specification over the shared variables.          *)
(***************************************************************************)
EXTENDS Integers, Sequences, FiniteSets, TLC

VARIABLES
    run,        \* generator: per call of BuildSource/BuildSchema, its locals and result
    G,          \* generator: the fields of each Generator value
    mw,         \* middleware: the ScopesMiddleware value (RequiredScopes)
    reqs,       \* middleware: the requests served so far, with their observed effects
    pools,      \* postgres: the pools created by CustomConnectionPool
    total,      \* postgres: pace_postgres_query_total, per label set
    failed,     \* postgres: pace_postgres_query_failed, per label set
    observed,   \* postgres: pace_postgres_query_duration_seconds, observations per label set
    events      \* postgres: the query events processed so far

vars == <<run, G, mw, reqs, pools, total, failed, observed, events>>
genVars == <<run, G>>
mwVars == <<mw, reqs>>
pgVars == <<pools, total, failed, observed, events>>

(***************************************************************************)
(* Bounds                                                                  *)
(***************************************************************************)
MaxRuns == 2
MaxRequests == 2
MaxEvents == 3

Runs == 1..MaxRuns
ConcurrentRuns == {1, 2}
Gens == {1, 2}

NoErr == "nil"
EmptyText == <<>>

(***************************************************************************)
(* Schema documents (openapi3.Swagger values)                              *)
(***************************************************************************)
Prim(k) == [tag |-> "primitive", kind |-> k]
Ref(n) == [tag |-> "reference", name |-> n]
Obj(fs) == [tag |-> "object", fields |-> fs]
Arr(e) == [tag |-> "array", elem |-> e]

Op(id, params, body) == [id |-> id, params |-> params, body |-> body]

SupportedPrimitives == {"string", "int", "bool", "number", "date"}

\* A -> B -> A cycle; B also used as array element
DocCycle ==
    [schemas |-> [n \in {"A", "B"} |->
                    IF n = "A" THEN Obj(<<Prim("string"), Ref("B")>>)
                               ELSE Obj(<<Ref("A")>>)],
     ops |-> <<Op("getA", <<Prim("string")>>, Ref("A")),
               Op("listB", <<>>, Arr(Ref("B")))>>]

\* the same array-of-Foo referenced from three operations, and a
\* non-conformant operation whose body is a bare primitive
DocArrays ==
    [schemas |-> [n \in {"Foo"} |-> Obj(<<Prim("int")>>)],
     ops |-> <<Op("listFoo", <<>>, Arr(Ref("Foo"))),
               Op("health", <<>>, Prim("string")),
               Op("findFoo", <<Prim("int")>>, Arr(Ref("Foo"))),
               Op("allFoo", <<>>, Arr(Ref("Foo")))>>]

\* a type with a primitive kind the target cannot represent
DocBadPrim ==
    [schemas |-> [n \in {"Ok", "Bad"} |->
                    IF n = "Ok" THEN Obj(<<Prim("bool")>>)
                                ELSE Obj(<<Prim("complex")>>)],
     ops |-> <<Op("getOk", <<>>, Ref("Ok")),
               Op("getBad", <<>>, Ref("Bad"))>>]

\* two operations with the same identifier
DocCollision ==
    [schemas |-> [n \in {"Item"} |-> Obj(<<Prim("string")>>)],
     ops |-> <<Op("getItem", <<>>, Ref("Item")),
               Op("getItem", <<Prim("int")>>, Ref("Item"))>>]

\* (packagePath, packageName) pairs
Pkgs == {<<"svc/api", "api">>, <<"svc/poi", "poi">>}

(***************************************************************************)
(* jen.File: the emission buffer                                           *)
(***************************************************************************)
\* the two import paths BuildSchema registers aliases for, by their names
pkgJSONAPIMetrics == "pkgJSONAPIMetrics"
pkgOpentracing == "pkgOpentracing"

\* the nil *jen.File / nil map of a zero Generator; id is the identity of the
\* allocation (the run that made it), 0 for nil
NilFile == [id |-> 0, path |-> "", name |-> "", comment |-> <<>>,
            aliases |-> <<>>, decls |-> <<>>]
NilMap == [id |-> 0, elems |-> {}]

NewFilePathName(id, packagePath, packageName) ==
    [id |-> id, path |-> packagePath, name |-> packageName, comment |-> <<>>,
     aliases |-> <<>>, decls |-> <<>>]

PackageComment(f, c) == [f EXCEPT !.comment = Append(@, <<"comment", c>>)]
ImportAlias(f, path, alias) == [f EXCEPT !.aliases = Append(@, <<"import", alias, path>>)]

\* fmt.Sprintf("%#v", file): the rendered source text, as a sequence of lines
Render(f) == f.comment \o <<<<"package", f.name>>>> \o f.aliases \o f.decls

ZeroGenerator ==
    [goSource |-> NilFile, serviceName |-> "",
     generatedTypes |-> NilMap, generatedArrayTypes |-> NilMap]


(***************************************************************************)
(* Type Resolver (Generator.BuildTypes) and Handler Synthesizer            *)
(* (Generator.BuildHandler), one document operation at a time.  A build    *)
(* state b is what a stage reads and writes through the Generator:         *)
(*   b.types, b.arrays : the two deduplication sets,                       *)
(*   b.decls           : the declarations added to the emission buffer,    *)
(*   b.err             : the stage's error so far.                         *)
(***************************************************************************)
DocOf(name) ==
    CASE name = "cycle" -> DocCycle
      [] name = "arrays" -> DocArrays
      [] name = "badprim" -> DocBadPrim
      [] name = "collision" -> DocCollision

DocNames == {"cycle", "arrays", "badprim", "collision"}

RECURSIVE ResolveNode(_, _, _)
RECURSIVE ResolveFields(_, _, _, _)

\* one SchemaNode: a reference is emitted once per name (a name already in
\* b.types is only referred to, which is what ends a cycle), an array of a
\* named element also emits one wrapper per element name
ResolveNode(doc, node, b) ==
    IF b.err # NoErr THEN b
    ELSE CASE node.tag = "primitive" ->
                IF node.kind \in SupportedPrimitives THEN b
                ELSE [b EXCEPT !.err = "unsupported-primitive"]
           [] node.tag = "reference" ->
                IF node.name \in b.types THEN b
                ELSE ResolveNode(doc, doc.schemas[node.name],
                        [b EXCEPT !.types = @ \cup {node.name},
                                  !.decls = Append(@, <<"type", node.name>>)])
           [] node.tag = "object" -> ResolveFields(doc, node.fields, 1, b)
           [] node.tag = "array" ->
                LET b1 == ResolveNode(doc, node.elem, b) IN
                IF b1.err # NoErr \/ node.elem.tag # "reference" THEN b1
                ELSE IF node.elem.name \in b1.arrays THEN b1
                ELSE [b1 EXCEPT !.arrays = @ \cup {node.elem.name},
                                !.decls = Append(@, <<"array", node.elem.name>>)]

ResolveFields(doc, fields, i, b) ==
    IF i > Len(fields) \/ b.err # NoErr THEN b
    ELSE ResolveFields(doc, fields, i + 1, ResolveNode(doc, fields[i], b))

\* the JSON:API envelope test: a body is a named object or an array of one
IsEnvelope(doc, body) ==
    \/ body.tag = "reference" /\ doc.schemas[body.name].tag = "object"
    \/ /\ body.tag = "array"
       /\ body.elem.tag = "reference"
       /\ doc.schemas[body.elem.name].tag = "object"

\* BuildTypes on one operation: parameters before the body; a body that is
\* no envelope is skipped without a type and without an error
TypesOfOperation(doc, op, b) ==
    LET b1 == ResolveFields(doc, op.params, 1, b) IN
    IF b1.err # NoErr \/ ~IsEnvelope(doc, op.body) THEN b1
    ELSE ResolveNode(doc, op.body, b1)

Conformant(doc, op) ==
    /\ \A i \in 1..Len(op.params) :
          \/ op.params[i].tag = "primitive" /\ op.params[i].kind \in SupportedPrimitives
          \/ op.params[i].tag = "reference"
    /\ IsEnvelope(doc, op.body)

\* BuildHandler on one operation: h.seen are the handler names of this stage
\* call, h.decls the buffer's declarations
HandlerOfOperation(doc, op, serviceName, h) ==
    IF h.err # NoErr \/ ~Conformant(doc, op) THEN h
    ELSE IF op.id \in h.seen THEN [h EXCEPT !.err = "naming-collision"]
    ELSE [h EXCEPT !.seen = @ \cup {op.id},
                   !.decls = Append(@, <<"handler", op.id, serviceName>>)]

(***************************************************************************)
(* Generator.BuildSource / Generator.BuildSchema                           *)
(***************************************************************************)
buildFuncs_Swapped == <<"BuildHandler", "BuildTypes">>

\* buildFuncs := []buildFunc{g.BuildTypes, g.BuildHandler}
buildFuncs == <<"BuildTypes", "BuildHandler">>

IdleRun ==
    [pc |-> "idle", entry |-> "", g |-> 0, schema |-> "", packagePath |-> "",
     packageName |-> "", bfIdx |-> 1, opIdx |-> 1, seen |-> {}, calls |-> <<>>,
     stageErr |-> NoErr, loadErr |-> NoErr, out |-> EmptyText, err |-> NoErr]

GenOf_ProcessGlobal(r) == 1

\* the receiver g of run r
GenOf(r) == run[r].g

\* strings.HasPrefix(source, "http://") || strings.HasPrefix(source, "https://")
IsURL(source) == source.prefix \in {"http://", "https://"}

Sources == [prefix : {"http://", "https://", ""}, loc : DocNames]

\* what loading can end in: url.Parse, http.Get, ioutil.ReadAll and
\* LoadSwaggerFromData for a URL; ioutil.ReadFile and LoadSwaggerFromData
\* for a path
LoadErrors == {"url-parse", "http-get", "read-body", "read-file", "parse-document"}

LoadOutcomes(source) ==
    IF IsURL(source) THEN {"url-parse", "http-get", "read-body", "parse-document", NoErr}
    ELSE {"read-file", "parse-document", NoErr}

CallBuildSchema(r, g, d, p) ==
    /\ run[r].pc = "idle"
    /\ run' = [run EXCEPT ![r] = [@ EXCEPT !.pc = "L90", !.entry = "BuildSchema",
                                   !.g = g, !.schema = d,
                                   !.packagePath = p[1], !.packageName = p[2]]]
    /\ UNCHANGED G

BuildSource_IgnoreLoadError(r, g, source, p) ==
    /\ run[r].pc = "idle"
    /\ \E outcome \in LoadOutcomes(source) :
          run' = [run EXCEPT ![r] = [@ EXCEPT !.pc = "L90", !.entry = "BuildSource",
                                      !.g = g, !.schema = source.loc,
                                      !.loadErr = outcome,
                                      !.packagePath = p[1], !.packageName = p[2]]]
    /\ UNCHANGED G

\* lines 56-85: load the document, then return g.BuildSchema(schema, ...)
BuildSource(r, g, source, p) ==
    /\ run[r].pc = "idle"
    /\ \E outcome \in LoadOutcomes(source) :
          IF outcome # NoErr
          THEN run' = [run EXCEPT ![r] = [@ EXCEPT !.pc = "done", !.entry = "BuildSource",
                                           !.g = g, !.loadErr = outcome,
                                           !.packagePath = p[1], !.packageName = p[2],
                                           !.out = EmptyText, !.err = outcome]]
          ELSE run' = [run EXCEPT ![r] = [@ EXCEPT !.pc = "L90", !.entry = "BuildSource",
                                           !.g = g, !.schema = source.loc,
                                           !.packagePath = p[1], !.packageName = p[2]]]
    /\ UNCHANGED G

Goto(r, pc) ==
    /\ run' = [run EXCEPT ![r].pc = pc]
    /\ UNCHANGED <<mwVars, pgVars>>

Line90_KeepMap(r) ==
    /\ run[r].pc = "L90"
    /\ G' = [G EXCEPT ![GenOf(r)].generatedTypes.id = r]
    /\ Goto(r, "L91")

\* g.generatedTypes = make(map[string]bool)
Line90(r) ==
    /\ run[r].pc = "L90"
    /\ G' = [G EXCEPT ![GenOf(r)].generatedTypes = [id |-> r, elems |-> {}]]
    /\ Goto(r, "L91")

\* g.generatedArrayTypes = make(map[string]bool)
Line91(r) ==
    /\ run[r].pc = "L91"
    /\ G' = [G EXCEPT ![GenOf(r)].generatedArrayTypes = [id |-> r, elems |-> {}]]
    /\ Goto(r, "L93")

Line93_KeepBuffer(r) ==
    /\ run[r].pc = "L93"
    /\ G' = [G EXCEPT ![GenOf(r)].goSource =
                IF @.id = 0
                THEN NewFilePathName(r, run[r].packagePath, run[r].packageName)
                ELSE [@ EXCEPT !.id = r, !.comment = <<>>, !.aliases = <<>>]]
    /\ Goto(r, "L94")

\* g.goSource = jen.NewFilePathName(packagePath, packageName)
Line93(r) ==
    /\ run[r].pc = "L93"
    /\ G' = [G EXCEPT ![GenOf(r)].goSource =
                NewFilePathName(r, run[r].packagePath, run[r].packageName)]
    /\ Goto(r, "L94")

\* g.goSource.PackageComment(...); g.goSource.ImportAlias(...) twice
Line94(r) ==
    /\ run[r].pc = "L94"
    /\ G' = [G EXCEPT ![GenOf(r)].goSource =
                ImportAlias(
                  ImportAlias(
                    PackageComment(@, "// Code generated by github.com/pace/bricks DO NOT EDIT."),
                    pkgJSONAPIMetrics, "metrics"),
                  pkgOpentracing, "opentracing")]
    /\ Goto(r, "L98")

\* g.serviceName = packageName
Line98(r) ==
    /\ run[r].pc = "L98"
    /\ UNCHANGED <<mwVars, pgVars>>
    /\ G' = [G EXCEPT ![GenOf(r)].serviceName = run[r].packageName]
    /\ run' = [run EXCEPT ![r] = [@ EXCEPT !.pc = "loop", !.bfIdx = 1]]

\* for _, bf := range buildFuncs { err := bf(schema) ...: the call of the stage
StartStage(r) ==
    /\ run[r].pc = "loop"
    /\ UNCHANGED <<mwVars, pgVars>>
    /\ run[r].stageErr = NoErr
    /\ run[r].bfIdx <= Len(buildFuncs)
    /\ run' = [run EXCEPT ![r] = [@ EXCEPT !.pc = "stage", !.opIdx = 1, !.seen = {},
                  !.calls = Append(@, [stage |-> buildFuncs[run[r].bfIdx],
                                        result |-> "running"])]]
    /\ UNCHANGED G

\* the stage returns err to the loop
StageReturns(rr, e) ==
    [rr EXCEPT !.pc = "loop", !.stageErr = e, !.bfIdx = @ + 1,
               !.calls = [@ EXCEPT ![Len(@)].result = IF e = NoErr THEN "ok" ELSE e]]

BuildTypes(r) ==
    /\ run[r].pc = "stage"
    /\ UNCHANGED <<mwVars, pgVars>>
    /\ buildFuncs[run[r].bfIdx] = "BuildTypes"
    /\ LET doc == DocOf(run[r].schema)
           g == G[GenOf(r)]
       IN IF run[r].opIdx > Len(doc.ops)
          THEN /\ run' = [run EXCEPT ![r] = StageReturns(@, NoErr)]
               /\ UNCHANGED G
          ELSE LET b == TypesOfOperation(doc, doc.ops[run[r].opIdx],
                           [types |-> g.generatedTypes.elems,
                            arrays |-> g.generatedArrayTypes.elems,
                            decls |-> g.goSource.decls, err |-> NoErr])
               IN /\ G' = [G EXCEPT ![GenOf(r)] =
                             [@ EXCEPT !.generatedTypes.elems = b.types,
                                       !.generatedArrayTypes.elems = b.arrays,
                                       !.goSource.decls = b.decls]]
                  /\ run' = [run EXCEPT ![r] =
                               IF b.err # NoErr THEN StageReturns(@, b.err)
                               ELSE [@ EXCEPT !.opIdx = @ + 1]]

BuildHandler(r) ==
    /\ run[r].pc = "stage"
    /\ UNCHANGED <<mwVars, pgVars>>
    /\ buildFuncs[run[r].bfIdx] = "BuildHandler"
    /\ LET doc == DocOf(run[r].schema)
           g == G[GenOf(r)]
       IN IF run[r].opIdx > Len(doc.ops)
          THEN /\ run' = [run EXCEPT ![r] = StageReturns(@, NoErr)]
               /\ UNCHANGED G
          ELSE LET h == HandlerOfOperation(doc, doc.ops[run[r].opIdx], g.serviceName,
                           [seen |-> run[r].seen, decls |-> g.goSource.decls,
                            err |-> NoErr])
               IN /\ G' = [G EXCEPT ![GenOf(r)].goSource.decls = h.decls]
                  /\ run' = [run EXCEPT ![r] =
                               IF h.err # NoErr THEN StageReturns(@, h.err)
                               ELSE [@ EXCEPT !.opIdx = @ + 1, !.seen = h.seen]]

StageError_PartialResult(r) ==
    /\ run[r].pc = "loop"
    /\ UNCHANGED <<mwVars, pgVars>>
    /\ run[r].stageErr # NoErr
    /\ run' = [run EXCEPT ![r] = [@ EXCEPT !.pc = "done",
                                   !.out = Render(G[GenOf(r)].goSource),
                                   !.err = run[r].stageErr]]
    /\ UNCHANGED G

\* if err != nil { return "", err }
StageError(r) ==
    /\ run[r].pc = "loop"
    /\ UNCHANGED <<mwVars, pgVars>>
    /\ run[r].stageErr # NoErr
    /\ run' = [run EXCEPT ![r] = [@ EXCEPT !.pc = "done", !.out = EmptyText,
                                   !.err = run[r].stageErr]]
    /\ UNCHANGED G

\* return fmt.Sprintf("%#v", g.goSource), nil
ReturnSource(r) ==
    /\ run[r].pc = "loop"
    /\ UNCHANGED <<mwVars, pgVars>>
    /\ run[r].stageErr = NoErr
    /\ run[r].bfIdx > Len(buildFuncs)
    /\ run' = [run EXCEPT ![r] = [@ EXCEPT !.pc = "done",
                                   !.out = Render(G[GenOf(r)].goSource),
                                   !.err = NoErr]]
    /\ UNCHANGED G


(***************************************************************************)
(* ScopesMiddleware (http/oauth2/middleware)                               *)
(***************************************************************************)
StatusForbidden == 403
StatusUnauthorized == 401

\* an oauth2.Scope, as the sequence of the scope names in the string; the
\* zero Scope is the empty one
ZeroScope == <<>>
RouteNames == {"getUser", "putUser", "health"}

\* the RequiredScopes maps a service may register
ScopeMaps ==
    { [n \in {"getUser"} |-> <<"user:read">>],
      [n \in {"getUser", "putUser"} |->
          IF n = "getUser" THEN <<"user:read">> ELSE <<"user:read", "user:write">>] }

\* m[key] of a Go map: the zero value for a missing key
MapGet(m, key) == IF key \in DOMAIN m THEN m[key] ELSE ZeroScope

\* the token of the request's context: none, or the scopes it carries
NoToken == [present |-> FALSE, scope |-> <<>>]
Tokens ==
    { NoToken,
      [present |-> TRUE, scope |-> <<>>],
      [present |-> TRUE, scope |-> <<"user:read">>],
      [present |-> TRUE, scope |-> <<"user:write", "user:read">>] }

\* oauth2.HasScope(ctx, scope): the context holds a token whose scope
\* includes every name of scope
HasScope(token, scope) ==
    /\ token.present
    /\ \A i \in 1..Len(scope) : \E j \in 1..Len(token.scope) : token.scope[j] = scope[i]

MwInit ==
    /\ mw = [made |-> FALSE, RequiredScopes |-> <<>>]
    /\ reqs = <<>>

NewScopesMiddleware(scopes) ==
    /\ ~mw.made
    /\ mw' = [made |-> TRUE, RequiredScopes |-> scopes]
    /\ UNCHANGED <<reqs, genVars, pgVars>>

\* what one request saw: the calls of next.ServeHTTP and the http.Error
\* writes, with the status and the body written
Served(routeName, token, nextCalls, errors) ==
    [route |-> routeName, token |-> token, nextCalls |-> nextCalls, errors |-> errors]

ForbiddenError(scope) ==
    [status |-> StatusForbidden, body |-> <<"Forbidden - requires scope", scope>>]

Handler_FallThrough(routeName, token) ==
    /\ mw.made
    /\ Len(reqs) < MaxRequests
    /\ reqs' = Append(reqs,
          Served(routeName, token,
                 IF HasScope(token, MapGet(mw.RequiredScopes, routeName)) THEN 1 ELSE 0,
                 <<ForbiddenError(MapGet(mw.RequiredScopes, routeName))>>))
    /\ UNCHANGED <<mw, genVars, pgVars>>

\* the http.HandlerFunc returned by Handler(next), serving one request whose
\* current route is named routeName
Handler(routeName, token) ==
    /\ mw.made
    /\ Len(reqs) < MaxRequests
    /\ IF HasScope(token, MapGet(mw.RequiredScopes, routeName))
       THEN reqs' = Append(reqs, Served(routeName, token, 1, <<>>))
       ELSE reqs' = Append(reqs,
                Served(routeName, token, 0,
                       <<ForbiddenError(MapGet(mw.RequiredScopes, routeName))>>))
    /\ UNCHANGED <<mw, genVars, pgVars>>

(***************************************************************************)
(* PostgreSQL pool instrumentation (backend/postgres)                      *)
(***************************************************************************)
\* the pg.Options a pool is made with
PoolOptions ==
    { [Addr |-> "localhost:5432", Database |-> "postgres"],
      [Addr |-> "db:5432", Database |-> "orders"] }

\* a pg.QueryProcessedEvent: the query text, the error of UnformattedQuery
\* and the error of the query
QueryEvents ==
    [query : {"SELECT 1"}, formatErr : {NoErr, "bad-params"}, Error : {NoErr, "timeout"}]

\* q, qe := event.UnformattedQuery(); if qe != nil { q = qe.Error() }
QueryLabel(event) == IF event.formatErr # NoErr THEN event.formatErr ELSE event.query

\* prometheus.Labels{"query": q, "database": opts.Database, "addr": opts.Addr}
Labels(event, opts) ==
    [query |-> QueryLabel(event), database |-> opts.Database, addr |-> opts.Addr]

LabelSets ==
    [query : {"SELECT 1", "bad-params"},
     database : {o.Database : o \in PoolOptions},
     addr : {o.Addr : o \in PoolOptions}]

Inc(counter, labels) == [counter EXCEPT ![labels] = @ + 1]

PgInit ==
    /\ pools = {}
    /\ total = [l \in LabelSets |-> 0]
    /\ failed = [l \in LabelSets |-> 0]
    /\ observed = [l \in LabelSets |-> 0]
    /\ events = <<>>

\* db.OnQueryProcessed(...) three times: the hooks of the new pool, in order
\* (pools made with equal options carry equal hooks and labels, and are one
\* element of the set)
CustomConnectionPool(opts) ==
    /\ pools' = pools \cup
          {[opts |-> opts,
            hooks |-> <<"queryLogger", "openTracingAdapter", "metricsAdapter">>]}
    /\ UNCHANGED <<total, failed, observed, events, genVars, mwVars>>

\* the metrics m = [total, failed, observed] after a hook ran
metricsAdapter_AlwaysFailed(event, opts, m) ==
    [total |-> Inc(m.total, Labels(event, opts)),
     failed |-> Inc(m.failed, Labels(event, opts)),
     observed |-> Inc(m.observed, Labels(event, opts))]

metricsAdapter(event, opts, m) ==
    [total |-> Inc(m.total, Labels(event, opts)),
     failed |-> IF event.Error # NoErr THEN Inc(m.failed, Labels(event, opts))
                ELSE m.failed,
     observed |-> Inc(m.observed, Labels(event, opts))]

\* queryLogger and openTracingAdapter write a log entry and a span, and no metric
RunHook(hook, event, opts, m) ==
    IF hook = "metricsAdapter" THEN metricsAdapter(event, opts, m) ELSE m

RECURSIVE RunHooks(_, _, _, _, _)
RunHooks(hooks, i, event, opts, m) ==
    IF i > Len(hooks) THEN m
    ELSE RunHooks(hooks, i + 1, event, opts, RunHook(hooks[i], event, opts, m))

\* go-pg processed a query on the pool made with opts and calls its hooks
QueryProcessed(opts, event) ==
    /\ Len(events) < MaxEvents
    /\ \E db \in pools :
          /\ db.opts = opts
          /\ LET m == RunHooks(db.hooks, 1, event, db.opts,
                               [total |-> total, failed |-> failed, observed |-> observed])
             IN /\ total' = m.total
                /\ failed' = m.failed
                /\ observed' = m.observed
    /\ events' = Append(events, [opts |-> opts, event |-> event])
    /\ UNCHANGED <<pools, genVars, mwVars>>

(***************************************************************************)
(* Specifications                                                          *)
(***************************************************************************)
GenInit ==
    /\ run = [r \in Runs |-> IdleRun]
    /\ G = [g \in Gens |-> ZeroGenerator]

Init == GenInit /\ MwInit /\ PgInit

Active(r) == run[r].pc \notin {"idle", "done"}

\* the Generator values are alike: the first call is on Generator 1, a later
\* one on the same Generator or on another
GensFor(r) == IF r = 1 THEN {1} ELSE Gens

\* one caller: call r starts when every earlier call has returned
MayStartInSequence(r) ==
    /\ \A q \in Runs : ~Active(q)
    /\ \A q \in Runs : q < r => run[q].pc = "done"

StartBuildSchema(r) ==
    /\ MayStartInSequence(r)
    /\ \E g \in GensFor(r), d \in DocNames, p \in Pkgs : CallBuildSchema(r, g, d, p)
    /\ UNCHANGED <<mwVars, pgVars>>

StartBuildSource(r) ==
    /\ MayStartInSequence(r)
    /\ \E g \in GensFor(r), s \in Sources, p \in Pkgs : BuildSource(r, g, s, p)
    /\ UNCHANGED <<mwVars, pgVars>>

\* two goroutines, each making one call on its own document and package
ConcurrentDocs(r) == IF r = 1 THEN {"cycle", "badprim"} ELSE {"arrays", "collision"}
ConcurrentPkg(r) == IF r = 1 THEN <<"svc/api", "api">> ELSE <<"svc/poi", "poi">>
GoBuildSchema(r) ==
    /\ r \in ConcurrentRuns
    /\ \E g \in GensFor(r), d \in ConcurrentDocs(r) :
          CallBuildSchema(r, g, d, ConcurrentPkg(r))
    /\ UNCHANGED <<mwVars, pgVars>>

Next ==
    \E r \in Runs :
        \/ StartBuildSchema(r)
        \/ StartBuildSource(r)
        \/ Line90(r)
        \/ Line91(r)
        \/ Line93(r)
        \/ Line94(r)
        \/ Line98(r)
        \/ StartStage(r)
        \/ BuildTypes(r)
        \/ BuildHandler(r)
        \/ StageError(r)
        \/ ReturnSource(r)

Spec == Init /\ [][Next]_vars

NextConc ==
    \E r \in Runs :
        \/ GoBuildSchema(r)
        \/ Line90(r)
        \/ Line91(r)
        \/ Line93(r)
        \/ Line94(r)
        \/ Line98(r)
        \/ StartStage(r)
        \/ BuildTypes(r)
        \/ BuildHandler(r)
        \/ StageError(r)
        \/ ReturnSource(r)

SpecConc == Init /\ [][NextConc]_vars


(***************************************************************************)
(* BuildSchema run alone on a fresh Generator: the result of the two       *)
(* stages applied to every operation in document order, then rendered      *)
(***************************************************************************)
RECURSIVE FoldTypes(_, _, _)
FoldTypes(doc, i, b) ==
    IF i > Len(doc.ops) \/ b.err # NoErr THEN b
    ELSE FoldTypes(doc, i + 1, TypesOfOperation(doc, doc.ops[i], b))

RECURSIVE FoldHandlers(_, _, _, _)
FoldHandlers(doc, i, serviceName, h) ==
    IF i > Len(doc.ops) \/ h.err # NoErr THEN h
    ELSE FoldHandlers(doc, i + 1, serviceName,
                      HandlerOfOperation(doc, doc.ops[i], serviceName, h))

SoloResult(d, packagePath, packageName) ==
    LET doc == DocOf(d)
        f == ImportAlias(
               ImportAlias(
                 PackageComment(NewFilePathName(0, packagePath, packageName),
                                "// Code generated by github.com/pace/bricks DO NOT EDIT."),
                 pkgJSONAPIMetrics, "metrics"),
               pkgOpentracing, "opentracing")
        b == FoldTypes(doc, 1, [types |-> {}, arrays |-> {}, decls |-> <<>>, err |-> NoErr])
        h == FoldHandlers(doc, 1, packageName,
                          [seen |-> {}, decls |-> b.decls, err |-> NoErr])
    IN IF b.err # NoErr THEN [out |-> EmptyText, err |-> b.err]
       ELSE IF h.err # NoErr THEN [out |-> EmptyText, err |-> h.err]
       ELSE [out |-> Render([f EXCEPT !.decls = h.decls]), err |-> NoErr]

Returned(r) == run[r].pc = "done"
ResultOf(r) == [out |-> run[r].out, err |-> run[r].err]
StageFailed(c) == c.result \notin {"ok", "running"}

(***************************************************************************)
(* Claims about the generator                                              *)
(***************************************************************************)

\* C1: in every BuildSchema run the stages are called in the order BuildTypes,
\* BuildHandler, each at most once; BuildHandler is called only after
\* BuildTypes returned nil in the same run; source text is returned only
\* after both stages returned nil.
C1_StageOrder ==
    \A r \in Runs :
        LET c == run[r].calls IN
        /\ Len(c) <= 2
        /\ Len(c) >= 1 => c[1].stage = "BuildTypes"
        /\ Len(c) = 2 => c[2].stage = "BuildHandler" /\ c[1].result = "ok"
        /\ (Returned(r) /\ run[r].out # EmptyText) =>
               /\ Len(c) = 2
               /\ c[1].result = "ok"
               /\ c[2].result = "ok"

C1_Witness ==
    \E r \in Runs :
        /\ Returned(r)
        /\ run[r].out # EmptyText
        /\ Len(run[r].calls) = 2

\* C2: when a stage returns an error no later stage is called, the run
\* returns exactly that error with the empty source text, and a non-empty
\* source text is returned only with a nil error.
C2_FailFast ==
    \A r \in Runs :
        LET c == run[r].calls IN
        /\ \A i \in 1..Len(c) :
              StageFailed(c[i]) =>
                  /\ i = Len(c)
                  /\ run[r].pc \in {"loop", "done"}
                  /\ Returned(r) => run[r].err = c[i].result /\ run[r].out = EmptyText
        /\ (Returned(r) /\ run[r].out # EmptyText) => run[r].err = NoErr
        /\ (Returned(r) /\ run[r].err # NoErr) => run[r].out = EmptyText

C2_Witness ==
    \E r \in Runs :
        /\ Returned(r)
        /\ run[r].err = "unsupported-primitive"
        /\ Len(run[r].calls) = 1
        /\ G[GenOf(r)].goSource.decls # <<>>

\* C3: every BuildSchema call returns what a call with the same arguments on
\* a fresh Generator returns, whatever the Generator was used for before; so
\* two calls with the same document and package return identical results.
C3_Idempotent ==
    /\ \A r \in Runs :
          (Returned(r) /\ run[r].loadErr = NoErr) =>
              ResultOf(r) = SoloResult(run[r].schema, run[r].packagePath, run[r].packageName)
    /\ \A r1, r2 \in Runs :
          ( /\ Returned(r1) /\ Returned(r2)
            /\ run[r1].loadErr = NoErr /\ run[r2].loadErr = NoErr
            /\ run[r1].schema = run[r2].schema
            /\ run[r1].packagePath = run[r2].packagePath
            /\ run[r1].packageName = run[r2].packageName )
          => ResultOf(r1) = ResultOf(r2)

C3_Witness ==
    \E r1, r2 \in Runs :
        /\ r1 < r2
        /\ Returned(r1) /\ Returned(r2)
        /\ run[r1].g = run[r2].g
        /\ run[r1].schema = "cycle" /\ run[r2].schema = "cycle"
        /\ run[r1].packageName = run[r2].packageName
        /\ run[r1].err = NoErr /\ run[r2].err = NoErr
        /\ run[r2].out # EmptyText

\* the maps and the buffer of the Generator of run r are the ones r made
OwnsTypes(r) == G[GenOf(r)].generatedTypes.id = r
OwnsArrayTypes(r) == G[GenOf(r)].generatedArrayTypes.id = r
OwnsBuffer(r) == G[GenOf(r)].goSource.id = r

Isolated(r) ==
    /\ run[r].pc \in {"L91", "L93", "L94", "L98", "loop", "stage"} => OwnsTypes(r)
    /\ run[r].pc \in {"L93", "L94", "L98", "loop", "stage"} => OwnsArrayTypes(r)
    /\ run[r].pc \in {"L94", "L98", "loop", "stage"} => OwnsBuffer(r)
    /\ (Returned(r) /\ run[r].loadErr = NoErr) =>
           ResultOf(r) = SoloResult(run[r].schema, run[r].packagePath, run[r].packageName)

\* C4 (as claimed): for any interleaving of two BuildSchema runs, on distinct
\* Generator values or on the same one, the buffer and the deduplication
\* sets of a run are never replaced or used by the other run and each run
\* returns what it returns alone.
C4_IsolatedOnAnyGenerator == \A r \in ConcurrentRuns : Isolated(r)

\* C4 (amended): the same for two runs started on distinct Generator values.
C4_IsolatedOnDistinctGenerators ==
    run[1].g # run[2].g => \A r \in ConcurrentRuns : Isolated(r)

C4_Witness ==
    /\ run[1].g # run[2].g
    /\ run[1].pc = "stage" /\ run[2].pc = "stage"
    /\ run[1].opIdx = 2 /\ run[2].opIdx = 2

\* C5: when loading or parsing fails, BuildSource returns the empty text and
\* that error, no stage is called, and the Generator is left unchanged.
C5_LoadErrorAborts ==
    /\ [](\A r \in Runs :
            run[r].loadErr # NoErr =>
                /\ Returned(r)
                /\ run[r].out = EmptyText
                /\ run[r].err = run[r].loadErr
                /\ run[r].err \in LoadErrors
                /\ run[r].calls = <<>>)
    /\ [][\A r \in Runs :
            (run[r].loadErr = NoErr /\ run'[r].loadErr # NoErr) => G' = G]_vars

C5_Witness ==
    \E r \in Runs :
        /\ Returned(r)
        /\ run[r].loadErr = "parse-document"
        /\ run[r].calls = <<>>
        /\ G[GenOf(r)].goSource.decls # <<>>

NoDuplicates(decls) ==
    \A i, j \in 1..Len(decls) :
        (i # j /\ decls[i] = decls[j]) => decls[i][1] \notin {"type", "array"}

\* C6: within one run at most one type is emitted per name and at most one
\* array wrapper per element type, cyclic documents included: neither the
\* buffer of a Generator nor a returned text holds a declaration twice.
C6_OneTypePerName ==
    /\ \A g \in Gens : NoDuplicates(G[g].goSource.decls)
    /\ \A r \in Runs : NoDuplicates(run[r].out)

C6_Witness ==
    \E r1, r2 \in Runs :
        /\ r1 < r2
        /\ run[r1].g = run[r2].g
        /\ Returned(r1) /\ run[r1].schema = "arrays" /\ run[r1].err = NoErr
        /\ Returned(r2) /\ run[r2].schema = "cycle" /\ run[r2].err = NoErr
        /\ \E i \in 1..Len(run[r2].out) : run[r2].out[i] = <<"array", "B">>
        /\ \E i \in 1..Len(run[r2].out) : run[r2].out[i] = <<"type", "A">>


(***************************************************************************)
(* Specifications of the middleware and of the pool instrumentation        *)
(***************************************************************************)
NextMw ==
    \/ \E scopes \in ScopeMaps : NewScopesMiddleware(scopes)
    \/ \E routeName \in RouteNames, token \in Tokens : Handler(routeName, token)

SpecMw == Init /\ [][NextMw]_vars

NextPg ==
    \/ \E opts \in PoolOptions : CustomConnectionPool(opts)
    \/ \E opts \in PoolOptions, event \in QueryEvents : QueryProcessed(opts, event)

SpecPg == Init /\ [][NextPg]_vars

(***************************************************************************)
(* Claims about the middleware                                             *)
(***************************************************************************)
RequiredScopeOf(q) == MapGet(mw.RequiredScopes, q.route)

\* C7: the handler answers 401 when the token of the request's context does
\* not have the scope required for the requested route.
C7_Answers401 ==
    \A i \in 1..Len(reqs) :
        ~HasScope(reqs[i].token, RequiredScopeOf(reqs[i])) =>
            /\ Len(reqs[i].errors) = 1
            /\ reqs[i].errors[1].status = StatusUnauthorized

C7_Witness ==
    \E i \in 1..Len(reqs) :
        /\ reqs[i].route = "putUser"
        /\ reqs[i].token.present
        /\ ~HasScope(reqs[i].token, RequiredScopeOf(reqs[i]))
        /\ Len(reqs[i].errors) = 1

\* C8: for every request either next is invoked exactly once and no error is
\* written, which happens exactly when HasScope holds for the scope
\* registered under the route's name, or one error response is written and
\* next is never invoked; RequiredScopes is never changed by a request.
C8_NextOrError ==
    /\ [](\A i \in 1..Len(reqs) :
            LET q == reqs[i] IN
            IF HasScope(q.token, RequiredScopeOf(q))
            THEN q.nextCalls = 1 /\ q.errors = <<>>
            ELSE q.nextCalls = 0 /\ Len(q.errors) = 1)
    /\ [][mw.made => mw' = mw]_vars

C8_Witness ==
    /\ Len(reqs) = 2
    /\ reqs[1].nextCalls = 1 /\ reqs[1].errors = <<>>
    /\ reqs[2].nextCalls = 0 /\ Len(reqs[2].errors) = 1
    /\ reqs[1].route = reqs[2].route

(***************************************************************************)
(* Claims about the pool instrumentation                                   *)
(***************************************************************************)
RECURSIVE CountEvents(_, _, _)
\* the events among the first n whose labels are l, all of them or only the
\* ones carrying an error
CountEvents(n, l, onlyErrors) ==
    IF n = 0 THEN 0
    ELSE CountEvents(n - 1, l, onlyErrors) +
         (IF /\ Labels(events[n].event, events[n].opts) = l
             /\ (onlyErrors => events[n].event.Error # NoErr)
          THEN 1 ELSE 0)

\* C9: every processed query event adds one to pace_postgres_query_total and
\* one duration observation, and one to pace_postgres_query_failed exactly
\* when it carries an error; so for each label set failed <= total and total
\* equals the number of observations.
C9_Metrics ==
    \A l \in LabelSets :
        /\ total[l] = CountEvents(Len(events), l, FALSE)
        /\ observed[l] = CountEvents(Len(events), l, FALSE)
        /\ failed[l] = CountEvents(Len(events), l, TRUE)
        /\ failed[l] <= total[l]
        /\ total[l] = observed[l]

C9_Witness ==
    \E l \in LabelSets : total[l] = 2 /\ failed[l] = 1 /\ observed[l] = 2

====
